---- MODULE Spec2Model ----
(***************************************************************************)
(* Render-state lifecycle and host event loop of learn_wgpu.               *)
(*   src/src/state.rs : State (new, resize, input, update, render)         *)
(*   src/src/lib.rs   : run (the closure given to event_loop.run)          *)
(* One step of the model is one invocation of the event-loop closure.      *)
(***************************************************************************)
EXTENDS Integers, Naturals, Sequences, FiniteSets, TLC

(* ---------------------------- bounds ----------------------------------- *)
\* largest window / event width and height, and the number of frames the
\* queue is followed for
MaxWidth == 2
MaxHeight == 2
MaxFrames == 2

(* ------------------ f64 values as reduced fractions -------------------- *)
\* A finite f64 is [n |-> numerator, d |-> denominator > 0] in lowest terms;
\* d = 0 stands for the non-finite results of a division by 0.0:
\* n = 1 is +inf, n = -1 is -inf, n = 0 is NaN.
Abs(i) == IF i < 0 THEN -i ELSE i

RECURSIVE GCD(_, _)
GCD(a, b) == IF b = 0 THEN a ELSE GCD(b, a % b)

Sign(i) == IF i > 0 THEN 1 ELSE IF i < 0 THEN -1 ELSE 0

Rat(n, d) ==
    LET g == GCD(Abs(n), d)
    IN  [n |-> n \div g, d |-> d \div g]

\* position.x / f64::from(self.size.width): an f64 divided by a u32
F64Div(p, q) == IF q = 0 THEN [n |-> Sign(p.n), d |-> 0] ELSE Rat(p.n, p.d * q)

\* (0.0..=1.0) written for (0.0..1.0)
RangeContains_Inclusive(x) == x.d > 0 /\ 0 <= x.n /\ x.n <= x.d

\* (0.0..1.0).contains(&x): false for NaN and the infinities
RangeContains(x) == x.d > 0 /\ 0 <= x.n /\ x.n < x.d

\* 1.0 - (x + y), the division by 2.0 left out
BlueOf_WithoutHalving(x, y) ==
    LET sum == Rat(x.n * y.d + y.n * x.d, x.d * y.d)
    IN  Rat(sum.d - sum.n, sum.d)

\* 1.0 - (x + y) / 2.0, for finite x and y
BlueOf(x, y) ==
    LET sum  == Rat(x.n * y.d + y.n * x.d, x.d * y.d)
        half == Rat(sum.n, 2 * sum.d)
    IN  Rat(half.d - half.n, half.d)

Color(r, g, b, a) == [r |-> r, g |-> g, b |-> b, a |-> a]

(* --------------------------- State::new -------------------------------- *)
\* what surface.get_capabilities(&adapter) may report
SurfaceCapabilities ==
    { [formats |-> <<"Bgra8Unorm", "Bgra8UnormSrgb">>,
       present_modes |-> <<"Fifo", "Mailbox">>,
       alpha_modes |-> <<"Auto", "Opaque">>] }

is_srgb(format) == format \in {"Bgra8UnormSrgb", "Rgba8UnormSrgb"}

\* formats.iter().copied().find(is_srgb).unwrap_or(formats[0])
SurfaceFormat(formats) ==
    IF \E i \in 1..Len(formats) : is_srgb(formats[i])
    THEN formats[CHOOSE i \in 1..Len(formats) :
                    /\ is_srgb(formats[i])
                    /\ \A j \in 1..(i - 1) : ~is_srgb(formats[j])]
    ELSE formats[1]

create_pipeline(config, fragment_entry_point) ==
    [fragment_entry_point |-> fragment_entry_point, format |-> config.format]

PhysicalSize(w, h) == [width |-> w, height |-> h]

\* the inner sizes a window can report
WindowSizes == { PhysicalSize(w, h) : w \in 0..MaxWidth, h \in 0..MaxHeight }

\* surface.configure(&device, &config): one call, recorded with what it applied
Configure(config) == [op |-> "configure", config |-> config]

\* Surface::configure panics when config.width or config.height is zero:
\* State::new then panics ("# Panics") and the event loop never starts.
ZeroArea(config) == config.width = 0 \/ config.height = 0

New(window_size, caps) ==
    LET size   == window_size
        config == [format |-> SurfaceFormat(caps.formats),
                   width |-> size.width,
                   height |-> size.height,
                   present_mode |-> caps.present_modes[1],
                   alpha_mode |-> caps.alpha_modes[1]]
    IN  [state |->
            [surface |-> [config |-> config, presented |-> <<>>],
             queue |-> <<>>,
             config |-> config,
             size |-> size,
             background_color |->
                 Color(Rat(1, 10), Rat(2, 10), Rat(3, 10), Rat(1, 1)),
             render_pipeline |-> create_pipeline(config, "fs_main"),
             second_pipeline |-> create_pipeline(config, "fs_main2")],
         trace |-> <<Configure(config)>>,
         panicked |-> ZeroArea(config)]

(* -------------------------- State::size -------------------------------- *)
Size(self) == self.size

(* ------------------------- State::resize ------------------------------- *)
\* `||` written for `&&` in the guard
Resize_EitherDimension(self, new_size) ==
    IF new_size.width > 0 \/ new_size.height > 0
    THEN LET config == [self.config EXCEPT !.width = new_size.width,
                                           !.height = new_size.height]
         IN  [state |-> [self EXCEPT !.size = new_size,
                                     !.config = config,
                                     !.surface.config = config],
              trace |-> <<Configure(config)>>]
    ELSE [state |-> self, trace |-> <<>>]

\* the assignment to config.height left out
Resize_WidthOnly(self, new_size) ==
    IF new_size.width > 0 /\ new_size.height > 0
    THEN LET config == [self.config EXCEPT !.width = new_size.width]
         IN  [state |-> [self EXCEPT !.size = new_size,
                                     !.config = config,
                                     !.surface.config = config],
              trace |-> <<Configure(config)>>]
    ELSE [state |-> self, trace |-> <<>>]

\* an accepted resize that also resets the clear color
Resize_ClearsBackground(self, new_size) ==
    IF new_size.width > 0 /\ new_size.height > 0
    THEN LET config == [self.config EXCEPT !.width = new_size.width,
                                           !.height = new_size.height]
         IN  [state |-> [self EXCEPT !.size = new_size,
                                     !.config = config,
                                     !.surface.config = config,
                                     !.background_color =
                                         Color(Rat(0, 1), Rat(0, 1),
                                               Rat(0, 1), Rat(1, 1))],
              trace |-> <<Configure(config)>>]
    ELSE [state |-> self, trace |-> <<>>]

\* the size stored, the configuration left as it was
Resize_KeepsConfig(self, new_size) ==
    IF new_size.width > 0 /\ new_size.height > 0
    THEN [state |-> [self EXCEPT !.size = new_size],
          trace |-> <<Configure(self.config)>>]
    ELSE [state |-> self, trace |-> <<>>]

Resize(self, new_size) ==
    IF new_size.width > 0 /\ new_size.height > 0
    THEN LET config == [self.config EXCEPT !.width = new_size.width,
                                           !.height = new_size.height]
         IN  [state |-> [self EXCEPT !.size = new_size,
                                     !.config = config,
                                     !.surface.config = config],
              trace |-> <<Configure(config)>>]
    ELSE [state |-> self, trace |-> <<>>]

(* -------------------------- State::input ------------------------------- *)
Blue  == Color(Rat(0, 1), Rat(0, 1), Rat(1, 1), Rat(1, 1))
Green == Color(Rat(0, 1), Rat(1, 1), Rat(0, 1), Rat(1, 1))
Red   == Color(Rat(1, 1), Rat(0, 1), Rat(0, 1), Rat(1, 1))
Black == Color(Rat(0, 1), Rat(0, 1), Rat(0, 1), Rat(1, 1))

\* input.virtual_keycode.filter(|_| input.state == ElementState::Pressed)
PressedKey(event) ==
    IF event.state = "Pressed" THEN event.virtual_keycode ELSE "None"

\* SPACE copies the second pipeline over the first instead of swapping
KeyboardInput_SpaceCopies(self, event) ==
    LET key == PressedKey(event)
    IN  CASE key = "None"  -> [state |-> self, ret |-> TRUE]
          [] key = "B"     -> [state |-> [self EXCEPT !.background_color = Blue],
                               ret |-> TRUE]
          [] key = "G"     -> [state |-> [self EXCEPT !.background_color = Green],
                               ret |-> TRUE]
          [] key = "R"     -> [state |-> [self EXCEPT !.background_color = Red],
                               ret |-> TRUE]
          [] key = "Space" -> [state |-> [self EXCEPT
                                   !.render_pipeline = self.second_pipeline],
                               ret |-> TRUE]
          [] OTHER         -> [state |-> self, ret |-> FALSE]

\* the arm `_ => return false` left out: every pressed key is consumed
KeyboardInput_ConsumesAll(self, event) ==
    LET key == PressedKey(event)
    IN  CASE key = "B"     -> [state |-> [self EXCEPT !.background_color = Blue],
                               ret |-> TRUE]
          [] key = "G"     -> [state |-> [self EXCEPT !.background_color = Green],
                               ret |-> TRUE]
          [] key = "R"     -> [state |-> [self EXCEPT !.background_color = Red],
                               ret |-> TRUE]
          [] key = "Space" -> [state |-> [self EXCEPT
                                   !.render_pipeline = self.second_pipeline,
                                   !.second_pipeline = self.render_pipeline],
                               ret |-> TRUE]
          [] OTHER         -> [state |-> self, ret |-> TRUE]

KeyboardInput(self, event) ==
    LET key == PressedKey(event)
    IN  CASE key = "None"  -> [state |-> self, ret |-> TRUE]
          [] key = "B"     -> [state |-> [self EXCEPT !.background_color = Blue],
                               ret |-> TRUE]
          [] key = "G"     -> [state |-> [self EXCEPT !.background_color = Green],
                               ret |-> TRUE]
          [] key = "R"     -> [state |-> [self EXCEPT !.background_color = Red],
                               ret |-> TRUE]
          [] key = "Space" -> [state |-> [self EXCEPT
                                   !.render_pipeline = self.second_pipeline,
                                   !.second_pipeline = self.render_pipeline],
                               ret |-> TRUE]
          [] OTHER         -> [state |-> self, ret |-> FALSE]

\* x divided by the height and y by the width
CursorMoved_SwapsDivisors(self, event) ==
    LET x == F64Div(event.x, self.size.height)
        y == F64Div(event.y, self.size.width)
    IN  IF RangeContains(x) /\ RangeContains(y)
        THEN [state |-> [self EXCEPT !.background_color =
                            Color(x, y, BlueOf(x, y), Rat(1, 1))],
              ret |-> TRUE]
        ELSE [state |-> self, ret |-> TRUE]

CursorMoved(self, event) ==
    LET x == F64Div(event.x, self.size.width)
        y == F64Div(event.y, self.size.height)
    IN  IF RangeContains(x) /\ RangeContains(y)
        THEN [state |-> [self EXCEPT !.background_color =
                            Color(x, y, BlueOf(x, y), Rat(1, 1))],
              ret |-> TRUE]
        ELSE [state |-> self, ret |-> TRUE]

\* the pointer leaving the window recognized but not acted on
CursorLeft_Ignored(self) == [state |-> self, ret |-> TRUE]

CursorLeft(self) ==
    [state |-> [self EXCEPT !.background_color = Black], ret |-> TRUE]

Input(self, event) ==
    CASE event.kind = "KeyboardInput" -> KeyboardInput(self, event)
      [] event.kind = "CursorMoved"   -> CursorMoved(self, event)
      [] event.kind = "CursorLeft"    -> CursorLeft(self)
      [] OTHER                        -> [state |-> self, ret |-> FALSE]

(* -------------------------- State::update ------------------------------ *)
Update(self) == self

(* --------------------- State::render_with_pipeline --------------------- *)
\* the pass bound to the pipeline that is not the active one
RenderWithPipeline_SecondPipeline(self) ==
    << [op |-> "begin_render_pass", clear |-> self.background_color],
       [op |-> "set_pipeline", pipeline |-> self.second_pipeline],
       [op |-> "draw", vertices |-> 3, instances |-> 1],
       [op |-> "end_render_pass"] >>

RenderWithPipeline(self) ==
    << [op |-> "begin_render_pass", clear |-> self.background_color],
       [op |-> "set_pipeline", pipeline |-> self.render_pipeline],
       [op |-> "draw", vertices |-> 3, instances |-> 1],
       [op |-> "end_render_pass"] >>

(* -------------------------- State::render ------------------------------ *)
SurfaceErrors == {"Lost", "OutOfMemory", "Outdated", "Timeout"}
AcquireResults == {"Ok"} \cup SurfaceErrors

\* the command buffer put in front of the ones submitted before it
Submit_Front(queue, frame) == <<frame>> \o queue

\* queue.submit(iter::once(encoder.finish())): the command buffer goes to the
\* back of the queue
Submit(queue, frame) == Append(queue, frame)

\* the command encoder created before the texture is acquired
Render_EncodesFirst(self, acquired) ==
    IF acquired # "Ok"
    THEN [state |-> self, ret |-> acquired,
          trace |-> <<[op |-> "create_command_encoder"],
                      [op |-> "get_current_texture", result |-> acquired]>>]
    ELSE LET frame == Len(self.queue) + 1 IN
         [state |-> [self EXCEPT
                        !.queue = Submit(self.queue, frame),
                        !.surface.presented = Append(@, frame)],
          ret |-> "Ok",
          trace |-> <<[op |-> "create_command_encoder"],
                      [op |-> "get_current_texture", result |-> "Ok"],
                      [op |-> "create_view"]>>
                    \o RenderWithPipeline(self)
                    \o <<[op |-> "finish"],
                         [op |-> "submit", command_buffers |-> <<frame>>],
                         [op |-> "present", frame |-> frame]>>]

\* acquired is what surface.get_current_texture() answers; a frame is named
\* by the number of frames acquired before it, plus one
Render(self, acquired) ==
    IF acquired # "Ok"
    THEN [state |-> self, ret |-> acquired,
          trace |-> <<[op |-> "get_current_texture", result |-> acquired]>>]
    ELSE LET frame == Len(self.queue) + 1 IN
         [state |-> [self EXCEPT
                        !.queue = Submit(self.queue, frame),
                        !.surface.presented = Append(@, frame)],
          ret |-> "Ok",
          trace |-> <<[op |-> "get_current_texture", result |-> "Ok"],
                      [op |-> "create_view"],
                      [op |-> "create_command_encoder"]>>
                    \o RenderWithPipeline(self)
                    \o <<[op |-> "finish"],
                         [op |-> "submit", command_buffers |-> <<frame>>],
                         [op |-> "present", frame |-> frame]>>]

(* ------------------- run: the event-loop closure ----------------------- *)
VARIABLES
    pc,               \* "event_loop" once State::new returned, else "panicked"
    state,            \* `state`, the State value the closure owns
    control_flow,     \* *control_flow
    space_presses,    \* parity of the SPACE presses handled so far
    scenario,         \* how far the events so far follow ScenarioEvent, or -1
    last              \* the event handled last, and what handling it did

vars == <<pc, state, control_flow, space_presses, scenario, last>>

Keys == {"B", "G", "R", "Space", "Escape", "A"}

KeyboardInputs ==
    [kind : {"KeyboardInput"}, state : {"Pressed", "Released"},
     virtual_keycode : Keys \cup {"None"}]

\* Pointer positions (f64) at these fractions of the window's extent: before
\* the origin, at it, inside, and at the far edge (normalized exactly 1.0).
\* For them every f64 operation of input() is exact, so the fractions are
\* the f64 values.
PointerFractions == { Rat(-1, 4), Rat(0, 1), Rat(1, 4), Rat(1, 2), Rat(1, 1) }

PointerPositions(extent) ==
    { Rat(f.n * extent, f.d) : f \in PointerFractions }

CursorMoves(size) ==
    [kind : {"CursorMoved"},
     x : PointerPositions(size.width), y : PointerPositions(size.height)]

Resizes ==
    [kind : {"Resized", "ScaleFactorChanged"},
     width : 0..MaxWidth, height : 0..MaxHeight]

PlainEvents == [kind : {"CursorLeft", "CloseRequested", "Focused"}]

WindowEvents(size) ==
    KeyboardInputs \cup CursorMoves(size) \cup Resizes \cup PlainEvents

\* window events delivered for a window that is not state.window()
ForeignWindowEvents ==
    { [kind |-> "CloseRequested"],
      [kind |-> "KeyboardInput", state |-> "Pressed", virtual_keycode |-> "Space"],
      [kind |-> "Resized", width |-> MaxWidth, height |-> MaxHeight] }

NoEvent == [kind |-> "None"]

\* the Lost arm left out: Lost falls to the arm that only prints the error
RenderMatch_LostIgnored(self, flow, ret) ==
    CASE ret = "Ok" ->
            [state |-> self, control_flow |-> flow, trace |-> <<>>]
      [] ret = "OutOfMemory" ->
            [state |-> self, control_flow |-> "Exit", trace |-> <<>>]
      [] OTHER ->
            [state |-> self, control_flow |-> flow,
             trace |-> <<[op |-> "eprintln", error |-> ret]>>]

\* the arms of Lost and OutOfMemory bound to `Err(Lost | OutOfMemory)`
RenderMatch_OutOfMemoryRecovers(self, flow, ret) ==
    CASE ret = "Ok" ->
            [state |-> self, control_flow |-> flow, trace |-> <<>>]
      [] ret \in {"Lost", "OutOfMemory"} ->
            LET r == Resize(self, Size(self))
            IN  [state |-> r.state, control_flow |-> flow, trace |-> r.trace]
      [] OTHER ->
            [state |-> self, control_flow |-> flow,
             trace |-> <<[op |-> "eprintln", error |-> ret]>>]

\* every error treated as fatal: `Err(_) => *control_flow = ControlFlow::Exit`
RenderMatch_AnyErrorExits(self, flow, ret) ==
    CASE ret = "Ok" ->
            [state |-> self, control_flow |-> flow, trace |-> <<>>]
      [] ret = "Lost" ->
            LET r == Resize(self, Size(self))
            IN  [state |-> r.state, control_flow |-> flow, trace |-> r.trace]
      [] OTHER ->
            [state |-> self, control_flow |-> "Exit", trace |-> <<>>]

\* Timeout bound to the arm of Lost: `Err(Lost | Timeout) => resize`
RenderMatch_TimeoutRecovers(self, flow, ret) ==
    CASE ret = "Ok" ->
            [state |-> self, control_flow |-> flow, trace |-> <<>>]
      [] ret \in {"Lost", "Timeout"} ->
            LET r == Resize(self, Size(self))
            IN  [state |-> r.state, control_flow |-> flow, trace |-> r.trace]
      [] ret = "OutOfMemory" ->
            [state |-> self, control_flow |-> "Exit", trace |-> <<>>]
      [] OTHER ->
            [state |-> self, control_flow |-> flow,
             trace |-> <<[op |-> "eprintln", error |-> ret]>>]

\* lib.rs: match state.render() { ... }
RenderMatch(self, flow, ret) ==
    CASE ret = "Ok" ->
            [state |-> self, control_flow |-> flow, trace |-> <<>>]
      [] ret = "Lost" ->
            LET r == Resize(self, Size(self))
            IN  [state |-> r.state, control_flow |-> flow, trace |-> r.trace]
      [] ret = "OutOfMemory" ->
            [state |-> self, control_flow |-> "Exit", trace |-> <<>>]
      [] OTHER ->
            [state |-> self, control_flow |-> flow,
             trace |-> <<[op |-> "eprintln", error |-> ret]>>]

\* a second render() after the first one
OnRedrawRequested_RendersTwice(self, flow, acquired) ==
    LET r == Render(Update(self), acquired)
        q == Render(r.state, acquired)
        m == RenderMatch(q.state, flow, q.ret)
    IN  [state |-> m.state, control_flow |-> m.control_flow,
         result |-> q.ret,
         trace |-> <<[op |-> "update"]>> \o r.trace \o q.trace \o m.trace]

\* lib.rs: Event::RedrawRequested(window_id) if window_id == state.window().id()
OnRedrawRequested(self, flow, acquired) ==
    LET r == Render(Update(self), acquired)
        m == RenderMatch(r.state, flow, r.ret)
    IN  [state |-> m.state, control_flow |-> m.control_flow,
         result |-> r.ret,
         trace |-> <<[op |-> "update"]>> \o r.trace \o m.trace]

IsExitEvent(event) ==
    \/ event.kind = "CloseRequested"
    \/ /\ event.kind = "KeyboardInput"
       /\ event.state = "Pressed"
       /\ event.virtual_keycode = "Escape"

\* the ScaleFactorChanged arm left out
UnconsumedMatch_ScaleFactorIgnored(self, flow, event) ==
    CASE event.kind = "Resized" ->
            LET r == Resize(self, PhysicalSize(event.width, event.height))
            IN  [state |-> r.state, control_flow |-> flow, trace |-> r.trace]
      [] IsExitEvent(event) ->
            [state |-> self, control_flow |-> "Exit", trace |-> <<>>]
      [] OTHER ->
            [state |-> self, control_flow |-> flow, trace |-> <<>>]

\* lib.rs: the match on an event that state.input() did not consume
UnconsumedMatch(self, flow, event) ==
    CASE event.kind \in {"Resized", "ScaleFactorChanged"} ->
            LET r == Resize(self, PhysicalSize(event.width, event.height))
            IN  [state |-> r.state, control_flow |-> flow, trace |-> r.trace]
      [] IsExitEvent(event) ->
            [state |-> self, control_flow |-> "Exit", trace |-> <<>>]
      [] OTHER ->
            [state |-> self, control_flow |-> flow, trace |-> <<>>]

\* lib.rs: Event::WindowEvent { window_id, event } if window_id == state.window().id()
OnWindowEvent(self, flow, event) ==
    LET i == Input(self, event)
    IN  IF ~i.ret
        THEN LET m == UnconsumedMatch(i.state, flow, event)
             IN  [state |-> m.state, control_flow |-> m.control_flow,
                  consumed |-> FALSE, trace |-> m.trace]
        ELSE [state |-> i.state, control_flow |-> flow,
              consumed |-> TRUE, trace |-> <<>>]

Handled(type, own, event, acquired, result, consumed, trace) ==
    [type |-> type, own |-> own, event |-> event, acquired |-> acquired,
     result |-> result, consumed |-> consumed, trace |-> trace]

IsSpacePress(event) ==
    /\ event.kind = "KeyboardInput"
    /\ event.state = "Pressed"
    /\ event.virtual_keycode = "Space"

\* The scripted session: press R, move the pointer to a quarter of the
\* width and half of the height, press SPACE, resize to a zero width.
ScenarioEvent(k, self, event) ==
    CASE k = 0 -> /\ event.kind = "KeyboardInput"
                  /\ event.state = "Pressed"
                  /\ event.virtual_keycode = "R"
      [] k = 1 -> /\ event.kind = "CursorMoved"
                  /\ event.x = Rat(self.size.width, 4)
                  /\ event.y = Rat(self.size.height, 2)
      [] k = 2 -> IsSpacePress(event)
      [] k = 3 -> /\ event.kind = "Resized"
                  /\ event.width = 0
                  /\ event.height > 0
      [] OTHER -> FALSE

\* winit emits RedrawRequested after MainEventsCleared, one per window
RedrawPhase(own) ==
    \/ last.type = "MainEventsCleared"
    \/ last.type = "RedrawRequested" /\ last.own # own

\* let mut state = State::new(window).await;
Init ==
    \E window_size \in WindowSizes, caps \in SurfaceCapabilities :
        LET n == New(window_size, caps)
        IN  /\ pc = IF n.panicked THEN "panicked" ELSE "event_loop"
            /\ state = n.state
            /\ control_flow = "Poll"
            /\ space_presses = 0
            /\ scenario = 0
            /\ last = Handled("New", TRUE, NoEvent, "None", "None", FALSE, n.trace)

\* the closure is called for as long as the loop was not told to exit
Running == pc = "event_loop" /\ control_flow = "Poll"

RedrawRequested(acquired) ==
    /\ Running
    /\ RedrawPhase(TRUE)
    /\ acquired = "Ok" => Len(state.queue) < MaxFrames
    /\ \E h \in {OnRedrawRequested(state, control_flow, acquired)} :
           /\ state' = h.state
           /\ control_flow' = h.control_flow
           /\ last' = Handled("RedrawRequested", TRUE, NoEvent, acquired,
                              h.result, FALSE, h.trace)
    /\ scenario' = -1
    /\ UNCHANGED <<pc, space_presses>>

\* a redraw request for another window falls to `_ => {}`
ForeignRedrawRequested ==
    /\ Running
    /\ RedrawPhase(FALSE)
    /\ last' = Handled("RedrawRequested", FALSE, NoEvent, "None", "None", FALSE, <<>>)
    /\ scenario' = -1
    /\ UNCHANGED <<pc, state, control_flow, space_presses>>

\* Event::MainEventsCleared => state.window().request_redraw()
MainEventsCleared ==
    /\ Running
    /\ last' = Handled("MainEventsCleared", TRUE, NoEvent, "None", "None", FALSE,
                       <<[op |-> "request_redraw"]>>)
    /\ scenario' = -1
    /\ UNCHANGED <<pc, state, control_flow, space_presses>>

WindowEvent(event) ==
    /\ Running
    /\ \E h \in {OnWindowEvent(state, control_flow, event)} :
           /\ state' = h.state
           /\ control_flow' = h.control_flow
           /\ last' = Handled("WindowEvent", TRUE, event, "None", "None",
                              h.consumed, h.trace)
    /\ space_presses' = IF IsSpacePress(event)
                        THEN (space_presses + 1) % 2 ELSE space_presses
    /\ scenario' = IF scenario >= 0 /\ ScenarioEvent(scenario, state, event)
                   THEN scenario + 1 ELSE -1
    /\ UNCHANGED pc

\* a window event for another window falls to `_ => {}`
ForeignWindowEvent(event) ==
    /\ Running
    /\ last' = Handled("WindowEvent", FALSE, event, "None", "None", FALSE, <<>>)
    /\ scenario' = -1
    /\ UNCHANGED <<pc, state, control_flow, space_presses>>

\* every other event (NewEvents, DeviceEvent, Suspended, ...) falls to `_ => {}`
OtherEvent ==
    /\ Running
    /\ last' = Handled("Other", FALSE, NoEvent, "None", "None", FALSE, <<>>)
    /\ scenario' = -1
    /\ UNCHANGED <<pc, state, control_flow, space_presses>>

Next ==
    \/ \E acquired \in AcquireResults : RedrawRequested(acquired)
    \/ ForeignRedrawRequested
    \/ MainEventsCleared
    \/ \E event \in WindowEvents(state.size) : WindowEvent(event)
    \/ \E event \in ForeignWindowEvents : ForeignWindowEvent(event)
    \/ OtherEvent

Spec == Init /\ [][Next]_vars

\* a redraw that MainEventsCleared asked for with request_redraw()
RequestedRedraw ==
    /\ last.type = "MainEventsCleared"
    /\ \E i \in 1..Len(last.trace) : last.trace[i].op = "request_redraw"
    /\ \E acquired \in AcquireResults : RedrawRequested(acquired)

\* winit ends every iteration of the loop with MainEventsCleared and then
\* emits the redraws that were requested
FairSpec == Spec /\ WF_vars(MainEventsCleared) /\ SF_vars(RequestedRedraw)

(* ======================= properties of the loop ======================== *)
\* how often the handler called `op`, and where in its sequence of calls
Count(trace, op) == Cardinality({ i \in 1..Len(trace) : trace[i].op = op })

IndexOf(trace, op) == CHOOSE i \in 1..Len(trace) : trace[i].op = op

NoFrameEffects(trace) ==
    /\ Count(trace, "create_command_encoder") = 0
    /\ Count(trace, "begin_render_pass") = 0
    /\ Count(trace, "draw") = 0
    /\ Count(trace, "submit") = 0
    /\ Count(trace, "present") = 0

\* the step handled a redraw of this window whose acquisition answered `acquired`
RedrawStep(l, acquired) ==
    l.type = "RedrawRequested" /\ l.own /\ l.acquired = acquired

\* the step handled a window event of this window
WindowStep(l) == l.type = "WindowEvent" /\ l.own

KeyPress(event, key) ==
    /\ event.kind = "KeyboardInput"
    /\ event.state = "Pressed"
    /\ event.virtual_keycode = key

IsResize(event) == event.kind \in {"Resized", "ScaleFactorChanged"}

(* C1: a redraw whose acquisition fails with "surface lost" reconfigures the
   surface exactly once, with the width and height stored before the tick,
   draws, submits and presents nothing, and leaves the control flow alone. *)
C1_LostReconfigures ==
    [][RedrawStep(last', "Lost") =>
        /\ last'.result = "Lost"
        /\ Count(last'.trace, "configure") = 1
        /\ LET c == last'.trace[IndexOf(last'.trace, "configure")].config
           IN  /\ c.width = state.size.width
               /\ c.height = state.size.height
               /\ state'.surface.config = c
        /\ state'.size = state.size
        /\ NoFrameEffects(last'.trace)
        /\ state'.queue = state.queue
        /\ state'.surface.presented = state.surface.presented
        /\ control_flow' = "Poll"]_vars

C1_Witness ==
    /\ RedrawStep(last, "Lost")
    /\ Count(last.trace, "configure") = 1
    /\ state.size = PhysicalSize(1, 2)
    /\ state.background_color.r = [n |-> 1, d |-> 4]
    /\ control_flow = "Poll"

(* C2: a redraw whose acquisition fails with "out of memory" sets the control
   flow to Exit, reconfigures nothing and draws, submits and presents nothing. *)
C2_OutOfMemoryExits ==
    [][RedrawStep(last', "OutOfMemory") =>
        /\ last'.result = "OutOfMemory"
        /\ control_flow' = "Exit"
        /\ Count(last'.trace, "configure") = 0
        /\ NoFrameEffects(last'.trace)
        /\ state' = state]_vars

C2_Witness ==
    /\ RedrawStep(last, "OutOfMemory")
    /\ control_flow = "Exit"
    /\ Count(last.trace, "configure") = 0

(* C3: a resize to a size with a zero width or a zero height changes neither
   the stored size nor the configuration and does not configure the surface. *)
C3_ZeroResizeIsNoOp ==
    [][(/\ WindowStep(last')
        /\ IsResize(last'.event)
        /\ (last'.event.width = 0 \/ last'.event.height = 0)) =>
        /\ state'.size = state.size
        /\ state'.config = state.config
        /\ state'.surface = state.surface
        /\ Count(last'.trace, "configure") = 0]_vars

C3_Witness ==
    /\ WindowStep(last)
    /\ last.event.kind = "Resized"
    /\ last.event.width = 0
    /\ last.event.height = 2
    /\ state.size = PhysicalSize(2, 1)
    /\ state.background_color.g = [n |-> 1, d |-> 4]
    /\ Len(last.trace) = 0

(* C4: a resize to (W, H) with W > 0 and H > 0 stores exactly (W, H) as the
   size and as the configuration's width and height, configures the surface
   exactly once with that configuration, and keeps the format, the present
   mode and the alpha mode. *)
C4_ResizeStoresAndConfigures ==
    [][(/\ WindowStep(last')
        /\ IsResize(last'.event)
        /\ last'.event.width > 0
        /\ last'.event.height > 0) =>
        /\ state'.size.width = last'.event.width
        /\ state'.size.height = last'.event.height
        /\ state'.config.width = last'.event.width
        /\ state'.config.height = last'.event.height
        /\ state'.config.format = state.config.format
        /\ state'.config.present_mode = state.config.present_mode
        /\ state'.config.alpha_mode = state.config.alpha_mode
        /\ Count(last'.trace, "configure") = 1
        /\ Len(last'.trace) = 1
        /\ last'.trace[1].config = state'.config
        /\ state'.surface.config = state'.config]_vars

C4_Witness ==
    /\ WindowStep(last)
    /\ last.event.kind = "ScaleFactorChanged"
    /\ last.event.width = 2
    /\ last.event.height = 1
    /\ state.size = PhysicalSize(2, 1)
    /\ state.background_color.r = [n |-> 1, d |-> 2]
    /\ Count(last.trace, "configure") = 1

(* C5: every configuration applied to the surface, at construction, on resize
   and on surface-lost recovery, has a width > 0 and a height > 0, and no
   reachable state stores a zero width or height. *)
C5_AppliedSizeIsPositive ==
    /\ \A i \in 1..Len(last.trace) :
          last.trace[i].op = "configure" =>
              last.trace[i].config.width > 0 /\ last.trace[i].config.height > 0
    /\ state.size.width > 0 /\ state.size.height > 0
    /\ state.config.width > 0 /\ state.config.height > 0

(* C6: a render() whose acquisition succeeds makes, in this order, one render
   pass with one draw of 3 vertices and 1 instance, one submission of one
   command buffer and one present, and returns Ok; the queue holds the frames
   in the order of the render() calls. *)
C6_OneFramePerRender ==
    [][RedrawStep(last', "Ok") =>
        LET t == last'.trace
        IN  /\ last'.result = "Ok"
            /\ Count(t, "create_command_encoder") = 1
            /\ Count(t, "begin_render_pass") = 1
            /\ Count(t, "end_render_pass") = 1
            /\ Count(t, "set_pipeline") = 1
            /\ Count(t, "draw") = 1
            /\ Count(t, "finish") = 1
            /\ Count(t, "submit") = 1
            /\ Count(t, "present") = 1
            /\ t[IndexOf(t, "draw")].vertices = 3
            /\ t[IndexOf(t, "draw")].instances = 1
            /\ Len(t[IndexOf(t, "submit")].command_buffers) = 1
            /\ IndexOf(t, "begin_render_pass") < IndexOf(t, "draw")
            /\ IndexOf(t, "draw") < IndexOf(t, "end_render_pass")
            /\ IndexOf(t, "end_render_pass") < IndexOf(t, "submit")
            /\ IndexOf(t, "submit") < IndexOf(t, "present")
            /\ Len(state'.queue) = Len(state.queue) + 1
            /\ \A i \in 1..Len(state.queue) : state'.queue[i] = state.queue[i]
            /\ state'.queue[Len(state'.queue)] = t[IndexOf(t, "submit")].command_buffers[1]
            /\ \A i \in 1..Len(state.queue) :
                  state.queue[i] < state'.queue[Len(state'.queue)]
            /\ state'.surface.presented = state'.queue]_vars

C6_Witness ==
    /\ RedrawStep(last, "Ok")
    /\ state.queue = <<1, 2>>
    /\ state.surface.presented = <<1, 2>>
    /\ Count(last.trace, "draw") = 1

(* C7: input() answers true for a press of B, G, R or SPACE, for every pointer
   move and for pointer-leave; for every other event it answers false and
   changes no state. *)
IsRecognized(event) ==
    \/ \E key \in {"B", "G", "R", "Space"} : KeyPress(event, key)
    \/ event.kind = "CursorMoved"
    \/ event.kind = "CursorLeft"

C7_ConsumedExactlyWhenRecognized ==
    [][WindowStep(last') =>
        IF IsRecognized(last'.event)
        THEN last'.consumed
        ELSE ~last'.consumed /\ Input(state, last'.event).state = state]_vars

(* C8: a pointer move at normalized (x, y) with 0 <= x < 1 and 0 <= y < 1 makes
   the background color exactly (x, y, 1 - (x + y) / 2, 1); any other pointer
   move leaves the background color as it was. *)
C8_PointerGradient ==
    [][(WindowStep(last') /\ last'.event.kind = "CursorMoved") =>
        LET px == last'.event.x
            py == last'.event.y
            w  == state.size.width
            h  == state.size.height
            c  == state'.background_color
        IN  IF 0 <= px.n /\ px.n < w * px.d /\ 0 <= py.n /\ py.n < h * py.d
            THEN /\ c.r.d > 0 /\ c.g.d > 0 /\ c.b.d > 0
                 /\ c.r.n * w * px.d = px.n * c.r.d
                 /\ c.g.n * h * py.d = py.n * c.g.d
                 /\ 2 * (c.b.d - c.b.n) * w * h * px.d * py.d
                      = c.b.d * (px.n * py.d * h + py.n * px.d * w)
                 /\ c.a.n = c.a.d /\ c.a.d > 0
            ELSE c = state.background_color]_vars

C8_Witness ==
    /\ WindowStep(last)
    /\ last.event.kind = "CursorMoved"
    /\ last.event.x = [n |-> 1, d |-> 2]
    /\ last.event.y = [n |-> 1, d |-> 1]
    /\ state.size = PhysicalSize(2, 2)
    /\ state.background_color.r = [n |-> 1, d |-> 4]
    /\ state.background_color.g = [n |-> 1, d |-> 2]
    /\ state.background_color.b = [n |-> 5, d |-> 8]

C8_WitnessOutside ==
    /\ WindowStep(last)
    /\ last.event.kind = "CursorMoved"
    /\ last.event.x = [n |-> state.size.width, d |-> 1]
    /\ last.event.y = [n |-> 0, d |-> 1]
    /\ state.background_color.g = [n |-> 1, d |-> 1]

(* C9: a press of B, G or R and pointer-leave set the background color to
   (0,0,1,1), (0,1,0,1), (1,0,0,1) and (0,0,0,1), whatever it was; handling
   the same event again changes nothing, and the pipelines stay as they are. *)
Solid(r, g, b) ==
    [r |-> [n |-> r, d |-> 1], g |-> [n |-> g, d |-> 1],
     b |-> [n |-> b, d |-> 1], a |-> [n |-> 1, d |-> 1]]

SolidOf(event) ==
    CASE KeyPress(event, "B") -> Solid(0, 0, 1)
      [] KeyPress(event, "G") -> Solid(0, 1, 0)
      [] KeyPress(event, "R") -> Solid(1, 0, 0)
      [] OTHER                -> Solid(0, 0, 0)

SetsSolid(event) ==
    \/ \E key \in {"B", "G", "R"} : KeyPress(event, key)
    \/ event.kind = "CursorLeft"

C9_SolidColors ==
    [][(WindowStep(last') /\ SetsSolid(last'.event)) =>
        /\ state' = [state EXCEPT !.background_color = SolidOf(last'.event)]
        /\ Input(state', last'.event).state = state'
        /\ control_flow' = control_flow]_vars

C9_Witness ==
    /\ WindowStep(last)
    /\ KeyPress(last.event, "G")
    /\ state.background_color = Solid(0, 1, 0)
    /\ state.render_pipeline.fragment_entry_point = "fs_main2"

(* C10: a press of SPACE exchanges the active pipeline with the other of the
   two pipelines and changes nothing else; after an even number of SPACE
   presses, whatever was handled in between, the active pipeline is the
   original one. *)
C10_SpaceIsInvolution ==
    /\ [](pc = "event_loop" =>
            /\ state.render_pipeline.fragment_entry_point
                 = (IF space_presses = 0 THEN "fs_main" ELSE "fs_main2")
            /\ state.second_pipeline.fragment_entry_point
                 = (IF space_presses = 0 THEN "fs_main2" ELSE "fs_main"))
    /\ [][(WindowStep(last') /\ KeyPress(last'.event, "Space")) =>
            /\ state' = [state EXCEPT !.render_pipeline = state.second_pipeline,
                                      !.second_pipeline = state.render_pipeline]
            /\ state'.render_pipeline # state.render_pipeline
            /\ control_flow' = control_flow]_vars

C10_Witness ==
    /\ WindowStep(last)
    /\ KeyPress(last.event, "Space")
    /\ space_presses = 0
    /\ state.render_pipeline.fragment_entry_point = "fs_main"
    /\ state.background_color = Solid(1, 0, 0)
    /\ Len(state.queue) = 1

(* C11: the control flow becomes Exit only when the event handled is a close
   request or a press of Escape for this window, or a redraw whose render()
   failed with "out of memory"; no other event and no other frame error
   exits the loop. *)
C11_ExitOnlyOnCloseEscapeOrOutOfMemory ==
    [][(control_flow' = "Exit" /\ control_flow # "Exit") =>
        \/ /\ WindowStep(last')
           /\ \/ last'.event.kind = "CloseRequested"
              \/ KeyPress(last'.event, "Escape")
        \/ /\ RedrawStep(last', "OutOfMemory")
           /\ last'.result = "OutOfMemory"]_vars

C11_Witness ==
    /\ control_flow = "Exit"
    /\ WindowStep(last)
    /\ KeyPress(last.event, "Escape")
    /\ state.background_color = Solid(0, 0, 1)

(* C12: from the initial state, with color (0.1, 0.2, 0.3, 1) and fs_main
   active, pressing R gives (1, 0, 0, 1); moving the pointer to normalized
   (0.25, 0.5) gives (0.25, 0.5, 0.625, 1); SPACE makes fs_main2 active and
   keeps the color; a resize to a zero width keeps the stored size. *)
Gradient_C12 ==
    [r |-> [n |-> 1, d |-> 4], g |-> [n |-> 1, d |-> 2],
     b |-> [n |-> 5, d |-> 8], a |-> [n |-> 1, d |-> 1]]

C12_EndToEnd ==
    /\ []((pc = "event_loop" /\ scenario = 0) =>
            /\ state.background_color =
                 [r |-> [n |-> 1, d |-> 10], g |-> [n |-> 1, d |-> 5],
                  b |-> [n |-> 3, d |-> 10], a |-> [n |-> 1, d |-> 1]]
            /\ state.render_pipeline.fragment_entry_point = "fs_main")
    /\ [](scenario = 1 => /\ state.background_color = Solid(1, 0, 0)
                          /\ state.render_pipeline.fragment_entry_point = "fs_main")
    /\ [](scenario = 2 => /\ state.background_color = Gradient_C12
                          /\ state.render_pipeline.fragment_entry_point = "fs_main")
    /\ [](scenario \in {3, 4} =>
                          /\ state.background_color = Gradient_C12
                          /\ state.render_pipeline.fragment_entry_point = "fs_main2")
    /\ [][scenario' = 4 => /\ state'.size = state.size
                           /\ state'.config = state.config]_vars

C12_Witness ==
    /\ scenario = 4
    /\ last.event.kind = "Resized"
    /\ state.size = PhysicalSize(2, 1)
    /\ state.background_color = Gradient_C12

(* C13: when the acquisition of the texture fails, whatever the error, render()
   returns that error, creates no command encoder, submits and presents
   nothing, and the size, the configuration, the background color and the
   pipelines are what they were. *)
C13_FailedAcquireHasNoEffect ==
    [][(\E e \in SurfaceErrors : RedrawStep(last', e)) =>
        /\ last'.result = last'.acquired
        /\ last'.trace[2] = [op |-> "get_current_texture", result |-> last'.acquired]
        /\ NoFrameEffects(last'.trace)
        /\ state'.queue = state.queue
        /\ state'.surface.presented = state.surface.presented
        /\ state'.size = state.size
        /\ state'.config = state.config
        /\ state'.background_color = state.background_color
        /\ state'.render_pipeline = state.render_pipeline
        /\ state'.second_pipeline = state.second_pipeline]_vars

C13_Witness ==
    /\ RedrawStep(last, "Timeout")
    /\ last.result = "Timeout"
    /\ state.queue = <<1>>
    /\ state.background_color = Solid(0, 1, 0)

(* C14: when render() fails with "outdated" or "timeout" the host prints the
   error and nothing else: no configuration is applied, the loop is not told
   to exit, the render state is what it was, and the redraw handled next
   calls render() again. *)
IsTransient(l) == RedrawStep(l, "Outdated") \/ RedrawStep(l, "Timeout")

C15_FrameUsesCurrentColorAndPipeline ==
    /\ [](last.type = "New" =>
            /\ state.background_color =
                  Color(Rat(1, 10), Rat(2, 10), Rat(3, 10), Rat(1, 1))
            /\ state.render_pipeline.fragment_entry_point = "fs_main")
    /\ [][/\ RedrawStep(last', "Ok") =>
               LET t == last'.trace
               IN  /\ Count(t, "begin_render_pass") = 1
                   /\ Count(t, "set_pipeline") = 1
                   /\ t[IndexOf(t, "begin_render_pass")].clear = state.background_color
                   /\ t[IndexOf(t, "set_pipeline")].pipeline = state.render_pipeline
                   /\ state'.background_color = state.background_color
                   /\ state'.render_pipeline = state.render_pipeline
          /\ ~WindowStep(last') =>
               /\ state'.background_color = state.background_color
               /\ state'.render_pipeline = state.render_pipeline
          /\ WindowStep(last') =>
               /\ state'.queue = state.queue
               /\ state'.surface.presented = state.surface.presented
               /\ NoFrameEffects(last'.trace)]_vars

C15_Witness ==
    /\ RedrawStep(last, "Ok")
    /\ last.trace[IndexOf(last.trace, "begin_render_pass")].clear = Solid(1, 0, 0)
    /\ last.trace[IndexOf(last.trace, "set_pipeline")].pipeline.fragment_entry_point
         = "fs_main2"
    /\ state.queue = <<1, 2>>

C15_WitnessDefault ==
    /\ RedrawStep(last, "Ok")
    /\ last.trace[IndexOf(last.trace, "begin_render_pass")].clear.r = [n |-> 1, d |-> 10]
    /\ last.trace[IndexOf(last.trace, "set_pipeline")].pipeline.fragment_entry_point
         = "fs_main"

(* C16: a Resized or ScaleFactorChanged event of this window is never
   consumed by input() and the host resizes the state to the event's
   dimensions. *)
C16_ResizeEventsReachResize ==
    [][(WindowStep(last') /\ IsResize(last'.event)) =>
        /\ ~last'.consumed
        /\ Input(state, last'.event).ret = FALSE
        /\ IF last'.event.width > 0 /\ last'.event.height > 0
           THEN /\ state'.size.width = last'.event.width
                /\ state'.size.height = last'.event.height
                /\ Count(last'.trace, "configure") = 1
                /\ last'.trace[1].config.width = last'.event.width
                /\ last'.trace[1].config.height = last'.event.height
           ELSE state' = state /\ last'.trace = <<>>]_vars

C16_Witness ==
    /\ WindowStep(last)
    /\ last.event.kind = "ScaleFactorChanged"
    /\ last.event.width = 1
    /\ last.event.height = 2
    /\ ~last.consumed
    /\ state.size = PhysicalSize(1, 2)
    /\ state.queue = <<1>>

(* C17: the pointer is normalized by the size that the most recent accepted
   resize stored, or by the size of the window at construction: an accepted
   resize stores the event's dimensions, every other step, a rejected
   resize included, keeps the stored size, and a pointer at (px, py) inside
   the surface sets red to px / width and green to py / height of the
   stored size. *)
AcceptedResize(l) ==
    /\ WindowStep(l)
    /\ IsResize(l.event)
    /\ l.event.width > 0
    /\ l.event.height > 0

\* f is the fraction p / q
IsQuotient(f, p, q) == f.d # 0 /\ f.n * (p.d * q) = p.n * f.d

C17_PointerDividedByStoredSize ==
    [][/\ AcceptedResize(last') =>
            state'.size = PhysicalSize(last'.event.width, last'.event.height)
       /\ ~AcceptedResize(last') => state'.size = state.size
       /\ (WindowStep(last') /\ last'.event.kind = "CursorMoved") =>
            LET px == last'.event.x
                py == last'.event.y
                W  == state.size.width
                H  == state.size.height
                inside == /\ px.n >= 0 /\ px.n < px.d * W
                          /\ py.n >= 0 /\ py.n < py.d * H
            IN  IF inside
                THEN /\ IsQuotient(state'.background_color.r, px, W)
                     /\ IsQuotient(state'.background_color.g, py, H)
                ELSE state'.background_color = state.background_color]_vars

C17_Witness ==
    /\ WindowStep(last)
    /\ last.event.kind = "CursorMoved"
    /\ state.size = PhysicalSize(2, 1)
    /\ last.event.x = Rat(1, 2)
    /\ last.event.y = Rat(1, 2)
    /\ state.background_color.r = Rat(1, 4)
    /\ state.background_color.g = Rat(1, 2)

C17_WitnessRejected ==
    /\ WindowStep(last)
    /\ IsResize(last.event)
    /\ last.event.width = 2
    /\ last.event.height = 0
    /\ state.size = PhysicalSize(1, 2)

(* C18: the background color and the two pipelines are assigned by input()
   alone: a step that is not a window event of this window (a redraw that
   succeeds or fails, the recovery from a lost surface, an idle event, an
   event of another window) leaves them as they were, and a window event
   leaves them as input() returned them, whatever the host does with the
   event afterwards, a resize included. *)
Appearance(self) ==
    <<self.background_color, self.render_pipeline, self.second_pipeline>>

C18_OnlyInputChangesAppearance ==
    [][/\ ~WindowStep(last') => Appearance(state') = Appearance(state)
       /\ WindowStep(last') =>
            Appearance(state') = Appearance(Input(state, last'.event).state)
       /\ (WindowStep(last') /\ IsResize(last'.event)) =>
            Appearance(state') = Appearance(state)]_vars

C18_Witness ==
    /\ AcceptedResize(last)
    /\ state.size = PhysicalSize(2, 2)
    /\ state.background_color = Green
    /\ state.render_pipeline.fragment_entry_point = "fs_main2"

C18_WitnessLost ==
    /\ RedrawStep(last, "Lost")
    /\ state.background_color = Blue
    /\ state.render_pipeline.fragment_entry_point = "fs_main2"

(* C19: while the loop runs, an idle event requests a redraw and a redraw of
   this window calls update() and then render(), each once; a frame skipped
   for a lost, outdated or timed out surface is followed by another idle
   event, and an idle event by another redraw of this window, unless the
   loop exits. *)
SkippedFrame ==
    \E e \in {"Lost", "Outdated", "Timeout"} : RedrawStep(last, e)

Idle == last.type = "MainEventsCleared"

Exited == control_flow = "Exit"

C19_RedrawFollowsIdle ==
    /\ [][last'.type = "MainEventsCleared" =>
            last'.trace = <<[op |-> "request_redraw"]>>]_vars
    /\ [][(last'.type = "RedrawRequested" /\ last'.own) =>
            /\ Count(last'.trace, "update") = 1
            /\ Count(last'.trace, "get_current_texture") = 1
            /\ last'.trace[1].op = "update"
            /\ last'.trace[2].op = "get_current_texture"]_vars
    /\ SkippedFrame ~> (Idle \/ Exited)
    /\ Idle ~> ((last.type = "RedrawRequested" /\ last.own) \/ Exited)

C19_Witness ==
    /\ RedrawStep(last, "Timeout")
    /\ state.queue = <<1, 2>>
    /\ control_flow = "Poll"

(* C20: a CloseRequested event or a press of Escape for this window is not
   consumed by input() and sets the control flow to Exit; a press of B, G, R
   or Space is consumed, so the host's match on unconsumed events is not
   run for it: no exit, no resize. *)
C20_ExitEventsPassInputKeysDoNot ==
    [][WindowStep(last') =>
        /\ IsExitEvent(last'.event) =>
              /\ ~last'.consumed
              /\ control_flow' = "Exit"
        /\ (\E key \in {"B", "G", "R", "Space"} : KeyPress(last'.event, key)) =>
              /\ last'.consumed
              /\ control_flow' = control_flow
              /\ state'.size = state.size
              /\ state'.config = state.config
              /\ last'.trace = <<>>]_vars

C20_Witness ==
    /\ WindowStep(last)
    /\ KeyPress(last.event, "Escape")
    /\ ~last.consumed
    /\ control_flow = "Exit"
    /\ state.background_color = Red

C20_WitnessConsumed ==
    /\ WindowStep(last)
    /\ KeyPress(last.event, "Space")
    /\ last.consumed
    /\ control_flow = "Poll"

(* C21: in every state of the event loop the stored size is the size of the
   surface configuration, size.width = config.width and size.height =
   config.height, whatever resizes, inputs and redraws were handled. *)
C21_SizeMatchesConfig ==
    pc = "event_loop" =>
        /\ state.size.width = state.config.width
        /\ state.size.height = state.config.height

C21_Witness ==
    /\ AcceptedResize(last)
    /\ last.event.kind = "Resized"
    /\ state.size = PhysicalSize(2, 2)
    /\ state.config.width = 2
    /\ state.config.height = 2
    /\ state.queue = <<1, 2>>
    /\ state.background_color = Blue

C21_WitnessInitial ==
    /\ last.type = "New"
    /\ pc = "event_loop"
    /\ state.size = PhysicalSize(1, 2)
    /\ state.config.width = 1
    /\ state.config.height = 2

====
